---- MODULE Spec2Model ----
(***************************************************************************)
(* Model of src/src/readosm.py: the street-graph pipeline run by main():   *)
(*   get_all_ways -> get_all_nodes -> filter_out_orphan_nodes              *)
(*                -> get_crossings -> get_segments                         *)
(* Python dicts keep insertion order; the dicts whose iteration order is   *)
(* observable (ways) are sequences of entries, the others are functions.   *)
(***************************************************************************)
EXTENDS Integers, Sequences, FiniteSets, TLC

VARIABLES root, pc, ways, invways, nodeshash, crossings,
          segments, invsegments, segway, segclose, applied

vars == <<root, pc, ways, invways, nodeshash, crossings,
          segments, invsegments, segway, segclose, applied>>

----------------------------------------------------------------------------
(* Bounds of the explored inputs *)

\* most way records in a document
MaxWays == 2
\* most children (nd and tag elements together) over all ways of a document
\* with arbitrary tags
MaxKids == 4
\* most nd references over all ways of a document whose ways are all streets
MaxRefs == 5
\* most node ids over all ways of a reconciler input drawn directly
MaxReconRefs == 3

NodeIds == {1, 2, 3}

WAY_TYPES == {"motorway", "trunk", "primary", "secondary", "tertiary",
              "unclassified", "residential", "service", "living_street"}

----------------------------------------------------------------------------
(* Generic helpers *)

Range(s) == {s[i] : i \in DOMAIN s}

Last(s) == s[Len(s)]

EmptyMap == [x \in {} |-> <<>>]

\* d[k] = v on a dict kept as a function
MapSet(d, k, v) == [x \in (DOMAIN d) \cup {k} |-> IF x = k THEN v ELSE d[x]]

\* del d[k] for every k in ks
MapDel(d, ks) == [x \in (DOMAIN d) \ ks |-> d[x]]

\* key set of an insertion-ordered dict
Keys(d) == {d[i].id : i \in DOMAIN d}

\* position of key k in an insertion-ordered dict
PosOf(d, k) == CHOOSE i \in DOMAIN d : d[i].id = k

\* d[k] = v on an insertion-ordered dict: an existing key keeps its position
DictSet(d, k, v) ==
    IF k \in Keys(d)
    THEN [i \in DOMAIN d |-> IF d[i].id = k THEN [id |-> k, nodes |-> v] ELSE d[i]]
    ELSE Append(d, [id |-> k, nodes |-> v])

----------------------------------------------------------------------------
(* The XML document: root is the sequence of the children of <osm> *)

NdElem(ref) == [tag |-> "nd", ref |-> ref, k |-> "", v |-> ""]

TagElem(k, v) == [tag |-> "tag", ref |-> 0, k |-> k, v |-> v]

NodeElem(id) == [tag |-> "node", id |-> id, lat |-> id, lon |-> id,
                 children |-> <<>>]

WayElem(id, children) == [tag |-> "way", id |-> id, lat |-> 0, lon |-> 0,
                          children |-> children]

NdKinds == {NdElem(n) : n \in NodeIds}

\* the nd children of the documents with arbitrary tags
FewNdKinds == {NdElem(1)}

TagKinds == {TagElem("highway", "residential"),
             TagElem("highway", "footway"),
             TagElem("name", "residential")}

\* lens[1] + ... + lens[j]
RECURSIVE SumTo(_, _)
SumTo(lens, j) == IF j = 0 THEN 0 ELSE lens[j] + SumTo(lens, j - 1)

\* the lengths of at most nw lists that hold at most budget elements together
LenLists(nw, budget) ==
    {lens \in UNION {[1..m -> 0..budget] : m \in 0..nw} :
        SumTo(lens, Len(lens)) <= budget}

\* flat cut into consecutive lists of the lengths lens
Split(flat, lens) ==
    [j \in DOMAIN lens |-> SubSeq(flat, SumTo(lens, j - 1) + 1, SumTo(lens, j))]

\* the i-th way id met in a document
WayIdAt(i) == 100 + i

\* the ids of n way records, repeats included. get_all_ways only compares way
\* ids for equality, so each pattern of repeats is drawn once, the distinct
\* ids numbered in the order of their first record.
IdLists(n) ==
    {ids \in [1..n -> {WayIdAt(i) : i \in 1..n}] :
        \A i \in 1..n :
            \/ ids[i] = WayIdAt(1)
            \/ \E j \in 1..(i - 1) : ids[j] = ids[i] - 1}

\* a document: the records of the nodes 1..m, then the way records with the
\* ids ids and the children wl
MkRoot(m, ids, wl) ==
    [i \in 1..m |-> NodeElem(i)]
    \o [i \in 1..Len(wl) |-> WayElem(ids[i], wl[i])]

\* how many of the node ids have a record in the document: none, all but
\* the last, or all. The ids without one are the orphans of the ways that
\* list them.
SourceSizes == {0, Cardinality(NodeIds) - 1, Cardinality(NodeIds)}

\* r is a document whose ways carry any mix of nd and tag children; node 1
\* has a record or has none
IsDoc(r) ==
    \E p \in {0, 1} :
        \E lens \in LenLists(MaxWays, MaxKids) :
            \E flat \in [1..SumTo(lens, Len(lens)) -> FewNdKinds \cup TagKinds] :
                \E ids \in IdLists(Len(lens)) :
                    r = MkRoot(p, ids, Split(flat, lens))

AsStreet(c) == Append(c, TagElem("highway", "residential"))

\* r is a document whose ways are all tagged highway=residential
IsStreetDoc(r) ==
    \E p \in SourceSizes :
        \E lens \in LenLists(MaxWays, MaxRefs) :
            \E flat \in [1..SumTo(lens, Len(lens)) -> NdKinds] :
                \E ids \in IdLists(Len(lens)) :
                    r = MkRoot(p, ids,
                               [i \in DOMAIN lens |-> AsStreet(Split(flat, lens)[i])])

\* no way of r lists a node id twice and no two way records share an id
IsPlain(r) ==
    /\ \A j \in DOMAIN r :
           \A a, b \in DOMAIN r[j].children :
               (r[j].children[a] = r[j].children[b]) => a = b
    /\ \A i, j \in DOMAIN r :
           (r[i].tag = "way" /\ r[j].tag = "way" /\ r[i].id = r[j].id) => i = j

----------------------------------------------------------------------------
(* get_all_ways *)

\* WayChildStep with isstreet assigned from every tag: the last tag decides
WayChildStep_LastTag(st, child) ==
    IF child.tag = "nd"
    THEN [st EXCEPT !.nodes = Append(@, child.ref)]
    ELSE IF child.tag = "tag"
         THEN [st EXCEPT !.isstreet = (child.k = "highway" /\ child.v \in WAY_TYPES)]
         ELSE st

\* one child of a way: nodes.append(ref) for nd, isstreet = True for a street tag
WayChildStep(st, child) ==
    IF child.tag = "nd"
    THEN [st EXCEPT !.nodes = Append(@, child.ref)]
    ELSE IF child.tag = "tag"
         THEN IF child.k = "highway" /\ child.v \in WAY_TYPES
              THEN [st EXCEPT !.isstreet = TRUE]
              ELSE st
         ELSE st

RECURSIVE ScanWay(_, _, _)
ScanWay(children, i, st) ==
    IF i > Len(children) THEN st
    ELSE ScanWay(children, i + 1, WayChildStep(st, children[i]))

\* for node in nodes: append wayid to invways[node], creating the entry
RECURSIVE IndexNodes(_, _, _, _)
IndexNodes(inv, nodes, i, wayid) ==
    IF i > Len(nodes) THEN inv
    ELSE IndexNodes(
            IF nodes[i] \in DOMAIN inv
            THEN [inv EXCEPT ![nodes[i]] = Append(@, wayid)]
            ELSE MapSet(inv, nodes[i], <<wayid>>),
            nodes, i + 1, wayid)

\* WayStep with the index loop outside "if isstreet"
WayStep_IndexAll(acc, way) ==
    IF way.tag # "way" THEN acc
    ELSE LET st == ScanWay(way.children, 1, [isstreet |-> FALSE, nodes |-> <<>>])
         IN [ways    |-> IF st.isstreet THEN DictSet(acc.ways, way.id, st.nodes)
                         ELSE acc.ways,
             invways |-> IndexNodes(acc.invways, st.nodes, 1, way.id)]

\* the body of "for way in root"
WayStep(acc, way) ==
    IF way.tag # "way" THEN acc
    ELSE LET st == ScanWay(way.children, 1, [isstreet |-> FALSE, nodes |-> <<>>])
         IN IF st.isstreet
            THEN [ways    |-> DictSet(acc.ways, way.id, st.nodes),
                  invways |-> IndexNodes(acc.invways, st.nodes, 1, way.id)]
            ELSE acc

RECURSIVE ScanWays(_, _, _)
ScanWays(r, i, acc) ==
    IF i > Len(r) THEN acc
    ELSE ScanWays(r, i + 1, WayStep(acc, r[i]))

get_all_ways(r) == ScanWays(r, 1, [ways |-> <<>>, invways |-> EmptyMap])

----------------------------------------------------------------------------
(* get_all_nodes *)

\* the body of "for child in root": later records of an id overwrite earlier
NodeStep(hash, child, valid) ==
    IF child.tag # "node" THEN hash
    ELSE IF child.id \notin valid THEN hash
    ELSE MapSet(hash, child.id, <<child.lat, child.lon>>)

RECURSIVE ScanNodes(_, _, _, _)
ScanNodes(r, i, hash, valid) ==
    IF i > Len(r) THEN hash
    ELSE ScanNodes(r, i + 1, NodeStep(hash, r[i], valid), valid)

get_all_nodes(r, inv) == ScanNodes(r, 1, EmptyMap, DOMAIN inv)

----------------------------------------------------------------------------
(* filter_out_orphan_nodes *)

\* newlist = [nodeid for nodeid in nodes if nodeid in validnodes]
FilterNodes(nodes, validnodes) == SelectSeq(nodes, LAMBDA n : n \in validnodes)

\* ways[wayid] = newlist for every way: keys and their order are kept
FilterWays(w, validnodes) ==
    [i \in DOMAIN w |-> [id |-> w[i].id, nodes |-> FilterNodes(w[i].nodes, validnodes)]]

\* InvalidNodes stopping after the first invalid id
InvalidNodes_First(inv, validnodes) ==
    LET bad == (DOMAIN inv) \ validnodes
    IN IF bad = {} THEN {}
       ELSE {CHOOSE x \in bad : \A y \in bad : x <= y}

\* invalid = invwaysnodes.difference(validnodes)
InvalidNodes(inv, validnodes) == (DOMAIN inv) \ validnodes

\* filter_out_orphan_nodes without the deletion from invways
filter_out_orphan_nodes_KeepIndex(w, inv, hash) ==
    IF Cardinality(DOMAIN inv) = Cardinality(DOMAIN hash)
    THEN [ways |-> w, invways |-> inv]
    ELSE [ways    |-> FilterWays(w, DOMAIN hash),
          invways |-> inv]

filter_out_orphan_nodes(w, inv, hash) ==
    IF Cardinality(DOMAIN inv) = Cardinality(DOMAIN hash)
    THEN [ways |-> w, invways |-> inv]
    ELSE [ways    |-> FilterWays(w, DOMAIN hash),
          invways |-> MapDel(inv, InvalidNodes(inv, DOMAIN hash))]

----------------------------------------------------------------------------
(* get_crossings *)

get_crossings(inv) == {nodeid \in DOMAIN inv : Len(inv[nodeid]) > 1}

----------------------------------------------------------------------------
(* get_segments *)

\* NextSid stepping by two
NextSid_Skip(sid) == sid + 2

\* sid += 1
NextSid(sid) == sid + 1

\* for nod in segment: invsegments[node].append(sid), creating the entry.
\* The loop runs once per element of the buffer and each time indexes the
\* entry of node, the node that closed the segment.
RECURSIVE RecordSid(_, _, _, _)
RecordSid(inv, node, sid, times) ==
    IF times = 0 THEN inv
    ELSE RecordSid(
            IF node \in DOMAIN inv
            THEN [inv EXCEPT ![node] = Append(@, sid)]
            ELSE MapSet(inv, node, <<sid>>),
            node, sid, times - 1)

\* the body of "for node in nodes" at position i of way w.
\* st.buf is the list object named segment; st.emitted are the segment ids
\* whose entry segments[sid] refers to that same list object.
SegNodeStep(st, w, i, node, myset) ==
    LET buf == Append(st.buf, node)
    IN IF node \in myset /\ Len(buf) > 1
       THEN [buf         |-> buf,
             emitted     |-> st.emitted \cup {st.sid},
             invsegments |-> RecordSid(st.invsegments, node, st.sid, Len(buf)),
             sid         |-> NextSid(st.sid),
             segway      |-> MapSet(st.segway, st.sid, w),
             segclose    |-> MapSet(st.segclose, st.sid, i),
             segments    |-> st.segments]
       ELSE [st EXCEPT !.buf = buf]

RECURSIVE ScanSegNodes(_, _, _, _, _)
ScanSegNodes(st, w, nodes, i, myset) ==
    IF i > Len(nodes) THEN st
    ELSE ScanSegNodes(SegNodeStep(st, w, i, nodes[i], myset), w, nodes, i + 1, myset)

\* segments[sid] = segment stores a reference: every id emitted for a way
\* maps to the one list object of that way, read here with the content it has
\* when the scan of the way ends.
BindSegments(segs, emitted, buf) ==
    [s \in (DOMAIN segs) \cup emitted |-> IF s \in emitted THEN buf ELSE segs[s]]

\* the body of "for w, nodes in ways.items()"
SegWayStep(st, way, myset) ==
    IF myset \cap Range(way.nodes) = {} THEN st
    ELSE LET fin == ScanSegNodes([st EXCEPT !.buf = <<>>, !.emitted = {}],
                                 way.id, way.nodes, 1, myset)
         IN [fin EXCEPT !.segments = BindSegments(st.segments, fin.emitted, fin.buf)]

RECURSIVE ScanSegWays(_, _, _, _)
ScanSegWays(st, w, i, myset) ==
    IF i > Len(w) THEN st
    ELSE ScanSegWays(SegWayStep(st, w[i], myset), w, i + 1, myset)

get_segments(w, cr) ==
    ScanSegWays([segments |-> EmptyMap, invsegments |-> EmptyMap, sid |-> 0,
                 segway |-> EmptyMap, segclose |-> EmptyMap,
                 buf |-> <<>>, emitted |-> {}],
                w, 1, cr)

----------------------------------------------------------------------------
(* main(): the stages run once each, in order *)

Idle == /\ ways = <<>>
        /\ invways = EmptyMap
        /\ nodeshash = EmptyMap
        /\ crossings = {}
        /\ segments = EmptyMap
        /\ invsegments = EmptyMap
        /\ segway = EmptyMap
        /\ segclose = EmptyMap
        /\ applied = <<>>

\* main() on the documents whose ways are all streets
Init == /\ IsStreetDoc(root)
        /\ pc = "start"
        /\ Idle

GetAllWays ==
    /\ pc = "start"
    /\ LET r == get_all_ways(root)
       IN /\ ways' = r.ways
          /\ invways' = r.invways
    /\ pc' = "ways"
    /\ UNCHANGED <<root, nodeshash, crossings, segments, invsegments,
                   segway, segclose, applied>>

GetAllNodes ==
    /\ pc = "ways"
    /\ nodeshash' = get_all_nodes(root, invways)
    /\ pc' = "nodes"
    /\ UNCHANGED <<root, ways, invways, crossings, segments, invsegments,
                   segway, segclose, applied>>

FilterOutOrphanNodes ==
    /\ pc = "nodes"
    /\ LET r == filter_out_orphan_nodes(ways, invways, nodeshash)
       IN /\ ways' = r.ways
          /\ invways' = r.invways
    /\ pc' = "filtered"
    /\ UNCHANGED <<root, nodeshash, crossings, segments, invsegments,
                   segway, segclose, applied>>

GetCrossings ==
    /\ pc = "filtered"
    /\ crossings' = get_crossings(invways)
    /\ pc' = "crossings"
    /\ UNCHANGED <<root, ways, invways, nodeshash, segments, invsegments,
                   segway, segclose, applied>>

GetSegments ==
    /\ pc = "crossings"
    /\ LET r == get_segments(ways, crossings)
       IN /\ segments' = r.segments
          /\ invsegments' = r.invsegments
          /\ segway' = r.segway
          /\ segclose' = r.segclose
    /\ pc' = "done"
    /\ UNCHANGED <<root, ways, invways, nodeshash, crossings, applied>>

Next == \/ GetAllWays
        \/ GetAllNodes
        \/ FilterOutOrphanNodes
        \/ GetCrossings
        \/ GetSegments

Spec == Init /\ [][Next]_vars

\* the same run of main() on the documents whose ways carry any tags
InitTags == /\ IsDoc(root)
            /\ pc = "start"
            /\ Idle

SpecTags == InitTags /\ [][Next]_vars

\* the same run of main() on the street documents in which no way lists a
\* node id twice and no way id repeats
InitPlain == /\ IsStreetDoc(root)
             /\ IsPlain(root)
             /\ pc = "start"
             /\ Idle

SpecPlain == InitPlain /\ [][Next]_vars

----------------------------------------------------------------------------
(* filter_out_orphan_nodes as a function of any (ways, invways, nodeshash), *)
(* applied twice in a row to the objects it returns                         *)

\* w is a ways dict of at most MaxWays ways listing at most MaxReconRefs ids
IsReconWays(w) ==
    \E lens \in LenLists(MaxWays, MaxReconRefs) :
        \E flat \in [1..SumTo(lens, Len(lens)) -> NodeIds] :
            w = [i \in DOMAIN lens |-> [id |-> WayIdAt(i), nodes |-> Split(flat, lens)[i]]]

\* inv is an index of some node ids, each with one or two way ids
IsReconIndex(inv) ==
    \E K \in SUBSET NodeIds :
        inv \in [K -> {<<WayIdAt(1)>>, <<WayIdAt(1), WayIdAt(2)>>}]

\* hash is a registry of some node ids
IsReconHash(hash) ==
    \E K \in SUBSET NodeIds : hash = [n \in K |-> <<n, n>>]

InitRecon ==
    /\ root = <<>>
    /\ pc = "recon"
    /\ IsReconWays(ways)
    /\ IsReconIndex(invways)
    /\ IsReconHash(nodeshash)
    /\ crossings = {}
    /\ segments = EmptyMap
    /\ invsegments = EmptyMap
    /\ segway = EmptyMap
    /\ segclose = EmptyMap
    /\ applied = <<[ways |-> ways, invways |-> invways]>>

Reconcile ==
    LET r == filter_out_orphan_nodes(ways, invways, nodeshash)
    IN /\ ways' = r.ways
       /\ invways' = r.invways
       /\ applied' = Append(applied, r)
       /\ UNCHANGED <<root, pc, nodeshash, crossings, segments, invsegments,
                      segway, segclose>>

ReconcileOnce ==
    /\ pc = "recon"
    /\ Len(applied) = 1
    /\ Reconcile

ReconcileAgain ==
    /\ pc = "recon"
    /\ Len(applied) = 2
    /\ Reconcile

NextRecon == ReconcileOnce \/ ReconcileAgain

SpecRecon == InitRecon /\ [][NextRecon]_vars

----------------------------------------------------------------------------
(* Vocabulary of the properties *)

WayElems == {root[i] : i \in {j \in DOMAIN root : root[j].tag = "way"}}

HasStreetTag(children) ==
    \E i \in DOMAIN children :
        /\ children[i].tag = "tag"
        /\ children[i].k = "highway"
        /\ children[i].v \in {"motorway", "trunk", "primary", "secondary",
                              "tertiary", "unclassified", "residential",
                              "service", "living_street"}

Count(children, c) == Cardinality({i \in DOMAIN children : children[i] = c})

\* the children of one record are those of the other in another order
Permuted(c1, c2) ==
    /\ Len(c1) = Len(c2)
    /\ \A c \in Range(c1) \cup Range(c2) : Count(c1, c) = Count(c2, c)

\* the node ids listed by the retained ways
Referenced(w) == UNION {Range(w[i].nodes) : i \in DOMAIN w}

\* the retained ways that list node n
WaysThrough(w, n) == {w[i].id : i \in {j \in DOMAIN w : n \in Range(w[j].nodes)}}

NodesOf(w, id) == w[PosOf(w, id)].nodes

\* seg is the run nodes[from..to]
IsRun(seg, nodes, from, to) ==
    /\ 1 <= from
    /\ to <= Len(nodes)
    /\ Len(seg) = to - from + 1
    /\ \A i \in DOMAIN seg : seg[i] = nodes[from + i - 1]

AfterWays == pc \in {"ways", "nodes", "filtered", "crossings", "done"}

AfterFilter == pc \in {"filtered", "crossings", "done"}

\* the pairs (way position, node position) at which get_segments is to close
\* a segment: a crossing at the second or a later position of a way
Closings ==
    {<<j, i>> \in (DOMAIN ways) \X (1..(MaxKids + MaxRefs)) :
        /\ i \in DOMAIN ways[j].nodes
        /\ i > 1
        /\ ways[j].nodes[i] \in crossings}

----------------------------------------------------------------------------
(* Properties *)

\* C1: for every document, after get_all_ways, get_all_nodes and
\* filter_out_orphan_nodes the keys of invways are the keys of nodeshash:
\* every node id listed by a retained way has a coordinate, and every id with
\* a coordinate is listed by a retained way.
C1_RegistryMatchesIndex ==
    AfterFilter =>
        /\ DOMAIN invways = DOMAIN nodeshash
        /\ Referenced(ways) = DOMAIN nodeshash

\* C2: a node id is in get_crossings(invways) if and only if at least two
\* different retained ways list it, also when a way lists a node twice.
C2_CrossingIffTwoWays ==
    pc \in {"crossings", "done"} =>
        \A n \in NodeIds :
            (n \in crossings) <=> (Cardinality(WaysThrough(ways, n)) >= 2)

\* C3: of two segments emitted one after the other from the same way, the
\* later starts at the crossing that closed the earlier and holds no node of
\* the way before that crossing: it is the run of the way that starts there.
C3_NextBufferStartsAtCrossing ==
    pc = "done" =>
        \A s \in DOMAIN segments :
            (s + 1 \in DOMAIN segments /\ segway[s] = segway[s + 1]) =>
                /\ segments[s + 1][1] = Last(segments[s])
                /\ IsRun(segments[s + 1], NodesOf(ways, segway[s]), segclose[s],
                         segclose[s] + Len(segments[s + 1]) - 1)

\* C4: every emitted segment id is recorded in invsegments against every
\* node of its segment.
C4_SegmentIndexedAtEveryNode ==
    pc = "done" =>
        \A s \in DOMAIN segments :
            \A n \in Range(segments[s]) :
                /\ n \in DOMAIN invsegments
                /\ s \in Range(invsegments[n])

\* C5, as amended: a way id is a key of ways if and only if some way record
\* with that id has a tag with key highway and a value among the nine street
\* types; a record whose children are those of such a record in another
\* order has its id retained too.
C5_RetainedIffSomeRecordStreet ==
    AfterWays =>
        /\ Keys(ways) \subseteq {e.id : e \in WayElems}
        /\ \A e \in WayElems :
               (e.id \in Keys(ways)) <=>
                   \E f \in WayElems : f.id = e.id /\ HasStreetTag(f.children)
        /\ \A e1, e2 \in WayElems :
               (Permuted(e1.children, e2.children) /\ HasStreetTag(e1.children))
                   => e2.id \in Keys(ways)

\* C5, as claimed: a way record's id is a key of ways if and only if that
\* record has a tag with key highway and a value among the nine street
\* types; records whose children are the same in another order are retained
\* alike.
C5_RetainedIffStreetTag ==
    AfterWays =>
        /\ \A e \in WayElems : (e.id \in Keys(ways)) <=> HasStreetTag(e.children)
        /\ \A e1, e2 \in WayElems :
               Permuted(e1.children, e2.children) =>
                   ((e1.id \in Keys(ways)) <=> (e2.id \in Keys(ways)))

\* two records with the same children in different orders, a street tag
\* followed by another tag in one of them; both are retained
C5_Witness ==
    /\ pc = "ways"
    /\ \E e1, e2 \in WayElems :
          /\ e1.children # e2.children
          /\ Permuted(e1.children, e2.children)
          /\ HasStreetTag(e1.children)
          /\ \E i \in DOMAIN e1.children :
                /\ i > 1
                /\ e1.children[i].tag = "tag"
                /\ ~HasStreetTag(<<e1.children[i]>>)
                /\ HasStreetTag(<<e1.children[i - 1]>>)
          /\ {e1.id, e2.id} \subseteq Keys(ways)

\* C6: for any sequence of way records, a node id is a key of invways if and
\* only if a retained way lists it, for the pair returned by get_all_ways and
\* for the pair returned by filter_out_orphan_nodes.
C6_IndexDuality ==
    AfterWays => DOMAIN invways = Referenced(ways)

\* C7: no way returned by get_all_ways has an empty node list.
C7_NoEmptyWayRetained ==
    pc = "ways" => \A i \in DOMAIN ways : ways[i].nodes # <<>>

\* C8: the segment ids are 0..k-1 for the k segments emitted, and every
\* segment of an earlier way has a smaller id than every segment of a later
\* way.
C8_SegmentIdsGapFree ==
    pc = "done" =>
        /\ DOMAIN segments = 0..(Cardinality(Closings) - 1)
        /\ \A s, t \in DOMAIN segments :
               PosOf(ways, segway[s]) < PosOf(ways, segway[t]) => s < t

\* two ways emitted segments, one of them more than one
C8_Witness ==
    /\ pc = "done"
    /\ Cardinality(DOMAIN segments) >= 3
    /\ \E s, t \in DOMAIN segments : segway[s] # segway[t]

\* C9: filter_out_orphan_nodes applied to its own result, with the same
\* nodeshash, returns ways and invways equal to that result.
C9_ReconcileIdempotent ==
    Len(applied) = 3 => applied[3] = applied[2]

\* the first application shortened a way and removed a key
C9_Witness ==
    /\ Len(applied) = 3
    /\ applied[2].ways # applied[1].ways
    /\ applied[2].invways # applied[1].invways

\* C10: every returned segment ends at the crossing that closed it and holds
\* none of the nodes of the way that follow that crossing: it is a run of the
\* way that ends there.
C10_TrailingBufferDiscarded ==
    pc = "done" =>
        \A s \in DOMAIN segments :
            IsRun(segments[s], NodesOf(ways, segway[s]),
                  segclose[s] - Len(segments[s]) + 1, segclose[s])

====
